---- MODULE Spec2Model ----
(***************************************************************************)
(* A model of JSONFormatter (src/src/index.ts): the recursive node model,  *)
(* its open/close lifecycle and the frame-paced attach/detach of children. *)
(*                                                                         *)
(* A formatter is a record; the formatters it has appended to its          *)
(* `children` element are held in its `children` field, and the callbacks  *)
(* it has handed to requestAnimationFrame and that have not run yet are    *)
(* held in its `pending` field, oldest first.  A formatter whose element   *)
(* has been removed from its parent's `children` element can no longer be  *)
(* reached from the root element: it leaves the model together with the    *)
(* callbacks it still had pending, which only touch its own element.       *)
(***************************************************************************)
EXTENDS Integers, Sequences, FiniteSets, TLC

\* const MAX_ANIMATED_TOGGLE_ITEMS = 10
MAX_ANIMATED_TOGGLE_ITEMS == 10

\* Bounds of the model.
MaxBudget == 2     \* `open` arguments and openAtDepth depths range up to this
MaxOps == 3        \* toggleOpen and openAtDepth calls in one behaviour
MaxOpsBig == 2     \* the same, in the behaviours over the large array
BigLen == 12       \* length of the large array (more than the threshold)
MaxCount == 3      \* hoverPreviewArrayCount / hoverPreviewFieldCount range up to this
MaxOpsLong == 4    \* toggleOpen and openAtDepth calls in the longer behaviours

VARIABLES
    root,      \* the formatter the caller constructed
    config,    \* the configuration object shared by every formatter
    hasRAF,    \* whether window.requestAnimationFrame exists
    last,      \* history: the operation that produced this state
    calls,     \* history: the latest toggleOpen / openAtDepth calls made in
               \* succession (at most two), with no callback run between them;
               \* each with the openness, the number of children and whether
               \* no callback was pending on its formatter when it was made
    ops,       \* history: the number of toggleOpen and openAtDepth calls so far
    limit,     \* the number of such calls this behaviour is explored to
    preview    \* the string the latest getInlinepreview() call returned

vars == <<root, config, hasRAF, last, calls, ops, limit, preview>>

----------------------------------------------------------------------------
(* JSON values.  kind is the structural kind of the value; props are the   *)
(* own enumerable properties in Object.keys order; toJSON says whether the *)
(* value exposes a toJSON hook.                                            *)

Prim(kind, lit) == [kind |-> kind, lit |-> lit, toJSON |-> FALSE, props |-> <<>>]

Num(i) == Prim("number", ToString(i))

Arr(vals) ==
    [kind |-> "array", lit |-> "", toJSON |-> FALSE,
     props |-> [i \in 1..Len(vals) |-> [k |-> ToString(i - 1), v |-> vals[i]]]]

Obj(props) == [kind |-> "object", lit |-> "", toJSON |-> FALSE, props |-> props]

WithToJSON(json) == [json EXCEPT !.toJSON = TRUE]

\* Object.keys(json)
ObjectKeys(json) == [i \in 1..Len(json.props) |-> json.props[i].k]

\* json[key]: undefined when json has no such property
Get(json, key) ==
    IF \E i \in 1..Len(json.props) : json.props[i].k = key
    THEN json.props[CHOOSE i \in 1..Len(json.props) : json.props[i].k = key].v
    ELSE Prim("undefined", "undefined")

\* A JavaScript value used as a condition.
Truthy(x) == x \notin {"false", "null", "undefined"}

Bool(b) == IF b THEN "true" ELSE "false"

----------------------------------------------------------------------------
(* Configuration.  An option is "true", "false", "undefined" (left unset)  *)
(* or, for sortPropertiesBy, "null" or the name of a comparator.           *)

_defaultConfig ==
    [hoverPreviewEnabled |-> "false", hoverCopyEnabled |-> "true",
     hoverPreviewArrayCount |-> "100", hoverPreviewFieldCount |-> "5",
     animateOpen |-> "true", animateClose |-> "true",
     useToJSON |-> "true", sortPropertiesBy |-> "null"]

\* The constructor's defaulting of the options of the configuration it got.
SetDefaults(c) ==
    [c EXCEPT
       !.hoverPreviewEnabled = IF @ = "undefined" THEN _defaultConfig.hoverPreviewEnabled ELSE @,
       !.hoverCopyEnabled = IF @ = "undefined" THEN _defaultConfig.hoverCopyEnabled ELSE @,
       !.hoverPreviewArrayCount = IF @ = "undefined" THEN _defaultConfig.hoverPreviewArrayCount ELSE @,
       !.hoverPreviewFieldCount = IF @ = "undefined" THEN _defaultConfig.hoverPreviewFieldCount ELSE @,
       !.useToJSON = IF @ = "undefined" THEN _defaultConfig.useToJSON ELSE @]

\* new JSONFormatter(json, open, config, key): the fields of the new object.
JSONFormatter(json, open, key, hasKey) ==
    [json |-> json, open |-> open,
     key |-> IF hasKey /\ key = "" THEN "\"\"" ELSE key, hasKey |-> hasKey,
     _isOpen |-> "null",
     element |-> FALSE, openClass |-> FALSE,
     children |-> <<>>, pending |-> <<>>]

----------------------------------------------------------------------------
(* Getters.                                                                *)

isOpen(n) == IF n._isOpen # "null" THEN n._isOpen = "true" ELSE n.open > 0

isArray(n) == n.json.kind = "array"

isObject(n) == n.json.kind \in {"array", "object"}

getType(json) == json.kind

type(n) ==
    IF Truthy(config.useToJSON) /\ n.json.kind # "null" /\ n.json.toJSON
    THEN "stringifiable"
    ELSE getType(n.json)

useToJSON(n) == Truthy(config.useToJSON) /\ type(n) = "stringifiable"

\* The order of the keys the model uses, for the comparators.
KeyAlphabet == <<"", "a", "b", "c", "toJSON">>

KeyRank(k) == CHOOSE i \in 1..Len(KeyAlphabet) : KeyAlphabet[i] = k

\* The comparator named by config.sortPropertiesBy: a sorts before b.
Before(a, b) == KeyRank(a) > KeyRank(b)

RECURSIVE Insert(_, _)
Insert(sorted, k) ==
    IF sorted = <<>> THEN <<k>>
    ELSE IF Before(k, Head(sorted)) THEN <<k>> \o sorted
    ELSE <<Head(sorted)>> \o Insert(Tail(sorted), k)

\* keys.sort(this.config.sortPropertiesBy)
RECURSIVE SortKeys(_)
SortKeys(ks) ==
    IF ks = <<>> THEN <<>> ELSE Insert(SortKeys(SubSeq(ks, 1, Len(ks) - 1)), ks[Len(ks)])

keys(n) ==
    IF isObject(n)
    THEN IF ~isArray(n) /\ Truthy(config.sortPropertiesBy)
         THEN SortKeys(ObjectKeys(n.json))
         ELSE ObjectKeys(n.json)
    ELSE <<>>

isEmptyObject(n) == Len(keys(n)) = 0 /\ ~isArray(n)

\* Mutant of isEmpty: the array clause is lost.
isEmpty_objectsOnly(n) == isEmptyObject(n)

isEmpty(n) == isEmptyObject(n) \/ (Len(keys(n)) = 0 /\ isArray(n))

----------------------------------------------------------------------------
(* Inline preview.  The numeric options are held as the decimal strings of *)
(* their values.                                                           *)

\* The number a numeric option holds.
NumberOf(option) == CHOOSE i \in 0..100 : ToString(i) = option

\* The marker '\u2026' (horizontal ellipsis), in the characters a TLA+ string
\* can hold.
Ellipsis == "..."

\* strs.join(sep)
RECURSIVE Join(_, _)
Join(strs, sep) ==
    IF strs = <<>> THEN ""
    ELSE IF Len(strs) = 1 THEN strs[1]
    ELSE strs[1] \o sep \o Join(Tail(strs), sep)

\* getPreview(object): the constructor name of a container, with the
\* length of an array, and the value preview of a primitive.
getPreview(json) ==
    IF json.kind = "array" THEN "Array[" \o ToString(Len(json.props)) \o "]"
    ELSE IF json.kind = "object" THEN "Object"
    ELSE IF json.kind = "string" THEN "\"" \o json.lit \o "\""
    ELSE json.lit

\* keys.slice(0, count)
Slice(ks, count) == SubSeq(ks, 1, IF count < Len(ks) THEN count ELSE Len(ks))

\* Mutant of getInlinepreview: an array as long as the threshold is
\* already abbreviated.
getInlinepreview_abbreviatesAtThreshold(n) ==
    IF isArray(n)
    THEN IF Len(n.json.props) >= NumberOf(config.hoverPreviewArrayCount)
         THEN "Array[" \o ToString(Len(n.json.props)) \o "]"
         ELSE "[" \o Join([i \in 1..Len(n.json.props) |-> getPreview(n.json.props[i].v)], ", ") \o "]"
    ELSE "{}"

getInlinepreview(n) ==
    IF isArray(n)
    THEN IF Len(n.json.props) > NumberOf(config.hoverPreviewArrayCount)
         THEN "Array[" \o ToString(Len(n.json.props)) \o "]"
         ELSE "[" \o Join([i \in 1..Len(n.json.props) |-> getPreview(n.json.props[i].v)], ", ") \o "]"
    ELSE LET narrowKeys == Slice(keys(n), NumberOf(config.hoverPreviewFieldCount))
             kvs == [i \in 1..Len(narrowKeys) |->
                       narrowKeys[i] \o ":" \o getPreview(Get(n.json, narrowKeys[i]))]
             ellipsis == IF Len(keys(n)) >= NumberOf(config.hoverPreviewFieldCount)
                         THEN Ellipsis ELSE ""
         IN  "{" \o Join(kvs, ", ") \o ellipsis \o "}"

----------------------------------------------------------------------------
(* Operations of one formatter.  Each returns the formatter after the call.*)

RECURSIVE render(_), appendChildren(_, _), requestAnimationFrame(_, _),
          addAChild(_, _), removeAChild(_, _)

\* Mutant of requestAnimationFrame: the fallback keeps the callback and
\* does not call it.
requestAnimationFrame_keepsCallback(n, cb) == [n EXCEPT !.pending = Append(@, cb)]

\* window.requestAnimationFrame || function (cb) { cb(); return 0; }
requestAnimationFrame(n, cb) ==
    IF hasRAF
    THEN [n EXCEPT !.pending = Append(@, cb)]
    ELSE IF cb.fn = "addAChild" THEN addAChild(n, cb.arg) ELSE removeAChild(n, cb.arg)

\* Mutant of addAChild: the child gets the budget of its parent.
addAChild_sameBudget(n, index) ==
    LET key == IF index < Len(keys(n)) THEN keys(n)[index + 1] ELSE "undefined"
        formatter == JSONFormatter(Get(n.json, key), n.open, key, TRUE)
        n1 == [n EXCEPT !.children = Append(@, render(formatter))]
        index1 == index + 1
    IN  IF index1 < Len(keys(n))
        THEN IF index1 > MAX_ANIMATED_TOGGLE_ITEMS
             THEN addAChild(n1, index1)
             ELSE requestAnimationFrame(n1, [fn |-> "addAChild", arg |-> index1])
        ELSE n1

\* The closure addAChild of appendChildren, with the value of `index`.
addAChild(n, index) ==
    LET key == IF index < Len(keys(n)) THEN keys(n)[index + 1] ELSE "undefined"
        formatter == JSONFormatter(Get(n.json, key), n.open - 1, key, TRUE)
        n1 == [n EXCEPT !.children = Append(@, render(formatter))]
        index1 == index + 1
    IN  IF index1 < Len(keys(n))
        THEN IF index1 > MAX_ANIMATED_TOGGLE_ITEMS
             THEN addAChild(n1, index1)
             ELSE requestAnimationFrame(n1, [fn |-> "addAChild", arg |-> index1])
        ELSE n1

\* Mutant of appendChildren: the synchronous loop stops one key early.
appendChildren_skipsLast(n, animated) ==
    IF isEmpty(n) THEN n
    ELSE IF Truthy(animated)
    THEN requestAnimationFrame(n, [fn |-> "addAChild", arg |-> 0])
    ELSE [n EXCEPT !.children = @ \o
            [i \in 1..(Len(keys(n)) - 1) |->
                render(JSONFormatter(Get(n.json, keys(n)[i]), n.open - 1, keys(n)[i], TRUE))]]

appendChildren(n, animated) ==
    IF isEmpty(n) THEN n
    ELSE IF Truthy(animated)
    THEN requestAnimationFrame(n, [fn |-> "addAChild", arg |-> 0])
    ELSE [n EXCEPT !.children = @ \o
            [i \in 1..Len(keys(n)) |->
                render(JSONFormatter(Get(n.json, keys(n)[i]), n.open - 1, keys(n)[i], TRUE))]]

\* Mutant of removeAChild: it removes the last child, not the first.
removeAChild_removesLast(n, childrenRemoved) ==
    IF Len(n.children) > 0
    THEN LET n1 == [n EXCEPT !.children = SubSeq(@, 1, Len(@) - 1)]
             childrenRemoved1 == childrenRemoved + 1
         IN  IF childrenRemoved1 > MAX_ANIMATED_TOGGLE_ITEMS
             THEN removeAChild(n1, childrenRemoved1)
             ELSE requestAnimationFrame(n1, [fn |-> "removeAChild", arg |-> childrenRemoved1])
    ELSE n

\* The closure removeAChild of removeChildren, with the value of
\* `childrenRemoved`.
removeAChild(n, childrenRemoved) ==
    IF Len(n.children) > 0
    THEN LET n1 == [n EXCEPT !.children = Tail(@)]
             childrenRemoved1 == childrenRemoved + 1
         IN  IF childrenRemoved1 > MAX_ANIMATED_TOGGLE_ITEMS
             THEN removeAChild(n1, childrenRemoved1)
             ELSE requestAnimationFrame(n1, [fn |-> "removeAChild", arg |-> childrenRemoved1])
    ELSE n

removeChildren(n, animated) ==
    IF Truthy(animated)
    THEN requestAnimationFrame(n, [fn |-> "removeAChild", arg |-> 0])
    ELSE [n EXCEPT !.children = <<>>]

\* render(): a new element with a new, empty `children` element.  The
\* callbacks still pending captured the children element of the element
\* this one replaces, so none of them is pending on the new element.
render(n) ==
    LET n1 == [n EXCEPT !.element = TRUE, !.openClass = isOpen(n),
                        !.children = <<>>, !.pending = <<>>]
    IN  IF isObject(n1) /\ isOpen(n1) THEN appendChildren(n1, "false") ELSE n1

\* Mutant of toggleOpen: it inverts the stored flag, not the effective
\* openness.
toggleOpen_invertsFlag(n) ==
    LET n1 == [n EXCEPT !._isOpen = Bool(~(n._isOpen = "true"))]
    IN  IF n1.element
        THEN LET n2 == IF isOpen(n1)
                       THEN appendChildren(n1, config.animateOpen)
                       ELSE removeChildren(n1, config.animateClose)
             IN  [n2 EXCEPT !.openClass = ~@]
        ELSE n1

toggleOpen(n) ==
    LET n1 == [n EXCEPT !._isOpen = Bool(~isOpen(n))]
    IN  IF n1.element
        THEN LET n2 == IF isOpen(n1)
                       THEN appendChildren(n1, config.animateOpen)
                       ELSE removeChildren(n1, config.animateClose)
             IN  [n2 EXCEPT !.openClass = ~@]
        ELSE n1

\* Mutant of openAtDepth: the existing children are not removed.
openAtDepth_keepsChildren(n, depth) ==
    IF depth < 0 THEN n
    ELSE LET n1 == [n EXCEPT !.open = depth, !._isOpen = Bool(depth # 0)]
         IN  IF n1.element
             THEN IF depth = 0
                  THEN [n1 EXCEPT !.openClass = FALSE]
                  ELSE [appendChildren(n1, config.animateOpen) EXCEPT !.openClass = TRUE]
             ELSE n1

\* Mutant of openAtDepth: the guard on a negative depth is lost.
openAtDepth_noGuard(n, depth) ==
    LET n1 == [n EXCEPT !.open = depth, !._isOpen = Bool(depth # 0)]
    IN  IF n1.element
        THEN LET n2 == removeChildren(n1, "false")
             IN  IF depth = 0
                 THEN [n2 EXCEPT !.openClass = FALSE]
                 ELSE [appendChildren(n2, config.animateOpen) EXCEPT !.openClass = TRUE]
        ELSE n1

\* Mutant of openAtDepth: depth 0 leaves the 'open' class on the element.
openAtDepth_keepsClass(n, depth) ==
    IF depth < 0 THEN n
    ELSE LET n1 == [n EXCEPT !.open = depth, !._isOpen = Bool(depth # 0)]
         IN  IF n1.element
             THEN LET n2 == removeChildren(n1, "false")
                  IN  IF depth = 0
                      THEN n2
                      ELSE [appendChildren(n2, config.animateOpen) EXCEPT !.openClass = TRUE]
             ELSE n1

openAtDepth(n, depth) ==
    IF depth < 0 THEN n
    ELSE LET n1 == [n EXCEPT !.open = depth, !._isOpen = Bool(depth # 0)]
         IN  IF n1.element
             THEN LET n2 == removeChildren(n1, "false")
                  IN  IF depth = 0
                      THEN [n2 EXCEPT !.openClass = FALSE]
                      ELSE [appendChildren(n2, config.animateOpen) EXCEPT !.openClass = TRUE]
             ELSE n1

----------------------------------------------------------------------------
(* The tree of formatters reachable from the root element.  A path is the  *)
(* sequence of child positions that leads from the root to a formatter.    *)

RECURSIVE At(_, _), Replace(_, _, _), Paths(_)

At(n, p) == IF p = <<>> THEN n ELSE At(n.children[Head(p)], Tail(p))

Replace(n, p, new) ==
    IF p = <<>> THEN new
    ELSE [n EXCEPT !.children[Head(p)] = Replace(@, Tail(p), new)]

Paths(n) ==
    {<<>>} \cup UNION {{<<i>> \o q : q \in Paths(n.children[i])} : i \in 1..Len(n.children)}

----------------------------------------------------------------------------
(* The values and configurations the caller may pass.                      *)

Scenario == Obj(<<[k |-> "a", v |-> Num(1)], [k |-> "b", v |-> Arr(<<Num(1), Num(2), Num(3)>>)]>>)

BigArray == Arr([i \in 1..BigLen |-> Num(i)])

SmallValues ==
    {Num(1), Prim("string", "s"), Prim("null", "null"), Arr(<<>>), Obj(<<>>),
     Scenario,
     Obj(<<[k |-> "", v |-> Obj(<<[k |-> "c", v |-> Num(1)]>>)]>>),
     WithToJSON(Obj(<<[k |-> "a", v |-> Num(1)], [k |-> "toJSON", v |-> Prim("function", "f")]>>))}

\* What the caller passes as configuration: nothing (the constructor then
\* takes _defaultConfig), an object that sets the animation options, or {}.
Unset ==
    [hoverPreviewEnabled |-> "undefined", hoverCopyEnabled |-> "undefined",
     hoverPreviewArrayCount |-> "undefined", hoverPreviewFieldCount |-> "undefined",
     animateOpen |-> "undefined", animateClose |-> "undefined",
     useToJSON |-> "undefined", sortPropertiesBy |-> "undefined"]

Configs ==
    {_defaultConfig, Unset}
    \cup {[Unset EXCEPT !.animateOpen = ao, !.animateClose = ac] :
            ao \in {"true", "false"}, ac \in {"true", "false"}}
    \cup {[_defaultConfig EXCEPT !.useToJSON = "false"],
          [_defaultConfig EXCEPT !.sortPropertiesBy = "descending"]}

InitWith(values, configs, rafs, maxOps) ==
    /\ hasRAF \in rafs
    /\ \E c \in configs : config = SetDefaults(c)
    /\ \E json \in values, open \in 0..MaxBudget :
          root = JSONFormatter(json, open, "", FALSE)
    /\ last = [op |-> "new", path |-> <<>>, depth |-> 0]
    /\ calls = <<>>
    /\ ops = 0
    /\ limit = maxOps
    /\ preview = ""

Init == InitWith(SmallValues, Configs, BOOLEAN, MaxOps)

\* The large array, under the default configuration.
InitBig == InitWith({BigArray}, {_defaultConfig}, BOOLEAN, MaxOpsBig)

----------------------------------------------------------------------------
(* Actions.                                                                *)

\* History: the calls in succession after call c.
Called(c) ==
    IF last.op \in {"toggleOpen", "openAtDepth"}
    THEN <<calls[Len(calls)], c>>
    ELSE <<c>>

\* The caller renders the root.
Render ==
    /\ root' = render(root)
    /\ last' = [op |-> "render", path |-> <<>>, depth |-> 0]
    /\ calls' = <<>>
    /\ UNCHANGED <<config, hasRAF, ops, limit, preview>>

\* The caller calls toggleOpen() on the root, or the user clicks the toggler
\* link of a formatter, which calls its toggleOpen (render installs the
\* listener on objects that are not rendered through toJSON).
ToggleOpen(p) ==
    /\ p # <<>> => (isObject(At(root, p)) /\ ~useToJSON(At(root, p)))
    /\ ops < limit
    /\ ops' = ops + 1
    /\ root' = Replace(root, p, toggleOpen(At(root, p)))
    /\ last' = [op |-> "toggleOpen", path |-> p, depth |-> 0]
    /\ calls' = Called([op |-> "toggleOpen", path |-> p, depth |-> 0,
                        wasOpen |-> isOpen(At(root, p)),
                        quiet |-> At(root, p).pending = <<>>,
                        kids |-> Len(At(root, p).children)])
    /\ UNCHANGED <<config, hasRAF, limit, preview>>

\* The caller calls openAtDepth(depth) on the root.
OpenAtDepth(depth) ==
    /\ ops < limit
    /\ ops' = ops + 1
    /\ root' = openAtDepth(root, depth)
    /\ last' = [op |-> "openAtDepth", path |-> <<>>, depth |-> depth]
    /\ calls' = Called([op |-> "openAtDepth", path |-> <<>>, depth |-> depth,
                        wasOpen |-> isOpen(root),
                        quiet |-> root.pending = <<>>,
                        kids |-> Len(root.children)])
    /\ UNCHANGED <<config, hasRAF, limit, preview>>

\* The host runs the oldest callback a formatter has pending.
Frame(p) ==
    /\ At(root, p).pending # <<>>
    /\ LET n == At(root, p)
           cb == Head(n.pending)
           n1 == [n EXCEPT !.pending = Tail(@)]
       IN  root' = Replace(root, p,
                     IF cb.fn = "addAChild" THEN addAChild(n1, cb.arg)
                                            ELSE removeAChild(n1, cb.arg))
    /\ last' = [op |-> "frame", path |-> p, depth |-> 0]
    /\ UNCHANGED <<config, hasRAF, calls, ops, limit, preview>>

Next ==
    \/ Render
    \/ \E p \in Paths(root) : ToggleOpen(p)
    \/ \E depth \in -1..MaxBudget : OpenAtDepth(depth)
    \/ \E p \in Paths(root) : Frame(p)

Spec == Init /\ [][Next]_vars

SpecBig == InitBig /\ [][Next]_vars

\* A large and a small array, under the default configuration.
InitPaced ==
    InitWith({BigArray, Arr(<<Num(1), Num(2), Num(3)>>)}, {_defaultConfig}, BOOLEAN, MaxOpsBig)

SpecPaced == InitPaced /\ [][Next]_vars

\* Longer behaviours over {a:1, b:[1,2,3]}, with requestAnimationFrame
\* present, under the default configuration and under
\* {animateOpen: true, animateClose: false}.
InitLong ==
    InitWith({Scenario},
             {_defaultConfig, [Unset EXCEPT !.animateOpen = "true", !.animateClose = "false"]},
             {TRUE}, MaxOpsLong)

SpecLong == InitLong /\ [][Next]_vars

----------------------------------------------------------------------------
(* The inline preview, over arrays and objects around the thresholds.      *)

\* The i-th member of the containers previewed.
Member(i) ==
    IF i = 2 THEN Prim("string", "s")
    ELSE IF i = 3 THEN Arr(<<Num(1), Num(2)>>)
    ELSE IF i = 4 THEN Obj(<<>>)
    ELSE Num(i)

PreviewValues ==
    {Arr([i \in 1..len |-> Member(i)]) : len \in 0..(MaxCount + 1)}
    \cup {Obj([i \in 1..len |-> [k |-> "k" \o ToString(i), v |-> Member(i)]]) :
              len \in 0..(MaxCount + 1)}
    \cup {Arr(<<Num(1), Num(2), Num(3)>>)}

PreviewConfigs ==
    {[_defaultConfig EXCEPT !.hoverPreviewEnabled = "true",
                            !.hoverPreviewArrayCount = ToString(t),
                            !.hoverPreviewFieldCount = ToString(f)] :
        t \in 0..MaxCount, f \in 0..MaxCount}

InitPreview == InitWith(PreviewValues, PreviewConfigs, {TRUE}, 0)

\* The caller (or render(), for its preview text) calls getInlinepreview()
\* on the root.
GetInlinepreview ==
    /\ preview' = getInlinepreview(root)
    /\ last' = [op |-> "getInlinepreview", path |-> <<>>, depth |-> 0]
    /\ UNCHANGED <<root, config, hasRAF, calls, ops, limit>>

NextPreview == GetInlinepreview

SpecPreview == InitPreview /\ [][NextPreview]_vars

----------------------------------------------------------------------------
(* Vocabulary of the properties.                                           *)

\* No callback is pending on any formatter of the tree.
Quiescent == \A p \in Paths(root) : At(root, p).pending = <<>>

\* A plain JSON value: no toJSON hook, no function, no undefined.
RECURSIVE IsJSON(_)
IsJSON(json) ==
    /\ ~json.toJSON
    /\ json.kind \in {"number", "string", "null", "array", "object"}
    /\ \A i \in 1..Len(json.props) : IsJSON(json.props[i].v)

\* The key a child shows for property name k.
ShownKey(k) == IF k = "" THEN "\"\"" ELSE k

\* The children of n are one formatter per key of n, in keys order.
OnePerKey(n) ==
    /\ Len(n.children) = Len(keys(n))
    /\ \A i \in 1..Len(n.children) :
          /\ n.children[i].hasKey
          /\ n.children[i].key = ShownKey(keys(n)[i])
          /\ n.children[i].json = Get(n.json, keys(n)[i])

\* The latest call, when it was made on the root.
LastCall == calls[Len(calls)]

\* The latest call started an animated Attach on the rendered root.
AnimatedAttachCalled ==
    /\ calls # <<>>
    /\ LastCall.path = <<>>
    /\ root.element
    /\ Truthy(config.animateOpen)
    /\ \/ LastCall.op = "toggleOpen" /\ ~LastCall.wasOpen
       \/ LastCall.op = "openAtDepth" /\ LastCall.depth > 0

----------------------------------------------------------------------------
(* C1: whenever no paced step is pending, a rendered formatter over a      *)
(* non-empty container has children if and only if it is open.             *)
C1_ChildrenIffOpen ==
    Quiescent =>
        \A p \in Paths(root) :
            LET n == At(root, p)
            IN  (n.element /\ IsJSON(n.json) /\ isObject(n) /\ Len(n.json.props) > 0)
                    => (Len(n.children) > 0 <=> isOpen(n))

(* C2: an animated Attach on the rendered root, with no other call made    *)
(* after the call that started it, leaves exactly one child per key, in    *)
(* keys order, once its paced steps have run.                              *)
C2_AnimatedAttachComplete ==
    (AnimatedAttachCalled /\ IsJSON(root.json) /\ root.pending = <<>>) => OnePerKey(root)

\* The same, for an Attach started on a root that had no callback pending
\* and, when toggleOpen started it, no children left over.
C2_AttachFromClean ==
    (/\ AnimatedAttachCalled /\ IsJSON(root.json) /\ root.pending = <<>>
     /\ LastCall.quiet /\ (LastCall.op = "toggleOpen" => LastCall.kids = 0))
        => OnePerKey(root)

(* C3: two toggleOpen calls in succession on the rendered root return it   *)
(* to its original openness and, if it started closed, to no children once *)
(* every paced step has run.                                               *)
C3_ToggleTwice ==
    (/\ Len(calls) = 2
     /\ calls[1].op = "toggleOpen" /\ calls[1].path = <<>>
     /\ calls[2].op = "toggleOpen" /\ calls[2].path = <<>>
     /\ root.element /\ IsJSON(root.json))
        => /\ isOpen(root) = calls[1].wasOpen
           /\ (~calls[1].wasOpen /\ Quiescent) => root.children = <<>>

(* C4: openAtDepth(0) followed by openAtDepth(d), d >= 1, leaves the       *)
(* rendered root, once every paced step has run, as a fresh formatter with *)
(* budget d is after render(): open, one child per key, and every child as *)
(* render() builds it with budget d - 1.                                   *)
C4_ResetThenOpen ==
    (/\ Len(calls) = 2
     /\ calls[1].op = "openAtDepth" /\ calls[1].depth = 0
     /\ calls[2].op = "openAtDepth" /\ calls[2].depth >= 1
     /\ root.element /\ IsJSON(root.json) /\ Quiescent)
        => /\ isOpen(root) /\ root.open = calls[2].depth
           /\ root.children =
                render(JSONFormatter(root.json, calls[2].depth, "", FALSE)).children

----------------------------------------------------------------------------
\* The structural depth of a value: the number of nested container levels.
RECURSIVE Depth(_)
Depth(json) ==
    IF json.kind \notin {"array", "object"} THEN 0
    ELSE 1 + (IF json.props = <<>> THEN 0
              ELSE CHOOSE d \in {Depth(json.props[i].v) : i \in 1..Len(json.props)} :
                     \A i \in 1..Len(json.props) : Depth(json.props[i].v) <= d)

\* The subtree of n holds exactly one formatter for each member of json, at
\* every nesting level.
RECURSIVE OnePerMember(_, _)
OnePerMember(n, json) ==
    /\ n.json = json
    /\ Len(n.children) = Len(json.props)
    /\ \A i \in 1..Len(json.props) :
          /\ Cardinality({j \in 1..Len(n.children) :
                             n.children[j].key = ShownKey(json.props[i].k)}) = 1
          /\ \E j \in 1..Len(n.children) :
                /\ n.children[j].key = ShownKey(json.props[i].k)
                /\ OnePerMember(n.children[j], json.props[i].v)

(* C5: render() of a fresh root over a JSON value V with a budget of at    *)
(* least the structural depth of V materializes exactly one formatter per  *)
(* member of V at every nesting level.                                     *)
C5_RenderMaterializesAll ==
    (/\ last.op = "render" /\ root._isOpen = "null"
     /\ IsJSON(root.json) /\ root.open >= Depth(root.json))
        => OnePerMember(root, root.json)

C5_Witness ==
    /\ last.op = "render" /\ root._isOpen = "null"
    /\ root.json = Scenario /\ root.open = 2
    /\ Len(root.children) = 2
    /\ \E i \in 1..2 : Len(root.children[i].children) = 3

(* C6: every child has the budget of its parent minus one; after render()  *)
(* of an untoggled root with budget B the formatters at depth < B are open,*)
(* those at depth B are closed without children, and with budget 1 over    *)
(* {a:1, b:[1,2,3]} the root is open with the two closed children a and b. *)
C6_ChildBudget ==
    /\ \A p \in Paths(root) : \A i \in 1..Len(At(root, p).children) :
          At(root, p).children[i].open = At(root, p).open - 1
    /\ (last.op = "render" /\ root._isOpen = "null") =>
          \A p \in Paths(root) :
              LET n == At(root, p)
              IN  /\ n._isOpen = "null"
                  /\ n.open = root.open - Len(p)
                  /\ isOpen(n) <=> Len(p) < root.open
                  /\ Len(p) >= root.open => n.children = <<>>
    /\ (last.op = "render" /\ root._isOpen = "null" /\ root.json = Scenario /\ root.open = 1) =>
          /\ isOpen(root) /\ Len(root.children) = 2
          /\ {root.children[i].key : i \in 1..2} = {"a", "b"}
          /\ \A i \in 1..2 : ~isOpen(root.children[i]) /\ root.children[i].children = <<>>

C6_Witness ==
    /\ last.op = "render" /\ root._isOpen = "null"
    /\ root.json = Scenario /\ root.open = 1
    /\ Len(root.children) = 2

\* What an Attach on formatter n leaves as m.
AttachEffect(n, m, animated) ==
    IF Len(keys(n)) = 0
    THEN m.children = n.children /\ m.pending = n.pending
    ELSE IF Truthy(animated) /\ hasRAF
    THEN /\ m.children = n.children
         /\ m.pending = Append(n.pending, [fn |-> "addAChild", arg |-> 0])
    ELSE /\ m.pending = n.pending
         /\ Len(m.children) = Len(n.children) + Len(keys(n))
         /\ SubSeq(m.children, 1, Len(n.children)) = n.children
         /\ \A i \in 1..Len(keys(n)) :
               LET c == m.children[Len(n.children) + i]
               IN  /\ c.key = ShownKey(keys(n)[i])
                   /\ c.json = Get(n.json, keys(n)[i])
                   /\ c.open = m.open - 1 /\ c._isOpen = "null"

\* What a Detach on formatter n leaves as m.
DetachEffect(n, m, animated) ==
    IF Truthy(animated) /\ hasRAF
    THEN /\ m.children = n.children
         /\ m.pending = Append(n.pending, [fn |-> "removeAChild", arg |-> 0])
    ELSE m.children = <<>> /\ m.pending = n.pending

(* C7: toggleOpen() sets openState to the opposite of the effective        *)
(* openness and, on a rendered formatter, starts an Attach if it is now    *)
(* open and a Detach if it is now closed, animated as animateOpen /        *)
(* animateClose say.                                                       *)
C7_ToggleOpenEffect ==
    [][last'.op = "toggleOpen" =>
        LET n == At(root, last'.path)
            m == At(root', last'.path)
        IN  /\ m._isOpen = (IF n._isOpen = "null"
                            THEN (IF n.open > 0 THEN "false" ELSE "true")
                            ELSE IF n._isOpen = "true" THEN "false" ELSE "true")
            /\ m.open = n.open
            /\ IF n.element
               THEN IF m._isOpen = "true"
                    THEN AttachEffect(n, m, config.animateOpen)
                    ELSE DetachEffect(n, m, config.animateClose)
               ELSE m.children = n.children /\ m.pending = n.pending]_vars

C7_Witness ==
    /\ last.op = "toggleOpen" /\ last.path # <<>>
    /\ LastCall.wasOpen = FALSE
    /\ At(root, last.path).open <= 0
    /\ At(root, last.path).pending = <<[fn |-> "addAChild", arg |-> 0]>>

(* C8: openAtDepth(depth), depth >= 0, sets the budget to depth and the    *)
(* openState to open iff depth # 0; on a rendered formatter it removes all *)
(* existing children at once and re-attaches only when depth # 0, so that  *)
(* right after openAtDepth(0) the formatter is closed without children.    *)
C8_OpenAtDepthEffect ==
    [][(last'.op = "openAtDepth" /\ last'.depth >= 0) =>
        /\ root'.open = last'.depth
        /\ root'._isOpen = (IF last'.depth # 0 THEN "true" ELSE "false")
        /\ IF root.element
           THEN IF last'.depth = 0
                THEN ~isOpen(root') /\ root'.children = <<>> /\ root'.pending = root.pending
                ELSE AttachEffect([root EXCEPT !.children = <<>>], root', config.animateOpen)
           ELSE root'.children = root.children /\ root'.pending = root.pending]_vars

C8_Witness ==
    /\ last.op = "openAtDepth" /\ last.depth = 0
    /\ root.element /\ LastCall.kids > 0 /\ LastCall.wasOpen
    /\ root.children = <<>> /\ ~isOpen(root)

(* C9: openAtDepth(depth) with depth < 0 changes nothing: budget,          *)
(* openState, children and pending steps are as before the call.           *)
C9_NegativeDepthNoOp ==
    [][(last'.op = "openAtDepth" /\ last'.depth < 0) => root' = root]_vars

C9_Witness ==
    /\ last.op = "openAtDepth" /\ last.depth < 0
    /\ root.element /\ root.children # <<>> /\ root.pending # <<>>

(* C10: a formatter over an empty array or an object without keys is       *)
(* empty and has no children in any reachable state, and no Attach step is *)
(* ever scheduled for it.                                                  *)
C10_EmptyContainer ==
    \A p \in Paths(root) :
        LET n == At(root, p)
        IN  (n.json.kind \in {"array", "object"} /\ n.json.props = <<>>)
                => /\ isEmpty(n)
                   /\ n.children = <<>>
                   /\ \A i \in 1..Len(n.pending) : n.pending[i].fn # "addAChild"

C10_Witness ==
    /\ root.json = Arr(<<>>) /\ root.element
    /\ last.op = "toggleOpen" /\ LastCall.wasOpen = FALSE /\ isOpen(root)
    /\ Truthy(config.animateOpen) /\ hasRAF
    /\ root.children = <<>>

\* C4 for a root that had no callback pending when openAtDepth(0) was called.
C4_ResetThenOpenFromQuiet ==
    (/\ Len(calls) = 2
     /\ calls[1].op = "openAtDepth" /\ calls[1].depth = 0 /\ calls[1].quiet
     /\ calls[2].op = "openAtDepth" /\ calls[2].depth >= 1
     /\ root.element /\ IsJSON(root.json) /\ Quiescent)
        => /\ isOpen(root) /\ root.open = calls[2].depth
           /\ root.children =
                render(JSONFormatter(root.json, calls[2].depth, "", FALSE)).children

----------------------------------------------------------------------------
(* C11: a formatter whose value is rendered through its toJSON hook is     *)
(* classified 'stringifiable' and never has children, even when the value  *)
(* is an object with enumerable keys and the formatter is open.            *)
C11_StringifiableNoChildren ==
    \A p \in Paths(root) :
        LET n == At(root, p)
        IN  (Truthy(config.useToJSON) /\ n.json.toJSON)
                => type(n) = "stringifiable" /\ n.children = <<>>

(* C12: an option the configuration leaves unset acts as its documented    *)
(* default: with animateOpen / animateClose unset and requestAnimationFrame*)
(* present, toggleOpen() on a rendered formatter with nothing pending      *)
(* starts a paced Attach (over a non-empty container) or a paced Detach,   *)
(* as it does under _defaultConfig.                                        *)
C12_UnsetActsAsDefault ==
    (/\ last.op = "toggleOpen" /\ LastCall.quiet /\ hasRAF
     /\ At(root, last.path).element)
        => LET n == At(root, last.path)
           IN  /\ (config.animateOpen = "undefined" /\ isOpen(n) /\ ~isEmpty(n))
                     => (Truthy(_defaultConfig.animateOpen)
                           => n.pending = <<[fn |-> "addAChild", arg |-> 0]>>)
               /\ (config.animateClose = "undefined" /\ ~isOpen(n))
                     => (Truthy(_defaultConfig.animateClose)
                           => n.pending = <<[fn |-> "removeAChild", arg |-> 0]>>)

(* C13: on every rendered formatter the 'open' class of the element is     *)
(* present if and only if the formatter is effectively open, after any     *)
(* toggleOpen and openAtDepth calls, negative depths included.             *)
C13_OpenClassIffOpen ==
    \A p \in Paths(root) :
        At(root, p).element => (At(root, p).openClass <=> isOpen(At(root, p)))

C13_Witness ==
    /\ root.element /\ Len(calls) = 2
    /\ calls[1].op = "openAtDepth" /\ calls[1].depth = 0 /\ calls[1].wasOpen
    /\ calls[2].op = "openAtDepth" /\ calls[2].depth < 0
    /\ ~root.openClass /\ ~isOpen(root) /\ root.open = 0

----------------------------------------------------------------------------
\* The previews of the members of json, in order.
MemberPreviews(json) == [i \in 1..Len(json.props) |-> getPreview(json.props[i].v)]

(* C14: the inline preview of an array of length L under threshold         *)
(* T = hoverPreviewArrayCount is '[' + the element previews joined by      *)
(* ', ' + ']' when L <= T and exactly 'Array[L]' when L > T; [1,2,3] under *)
(* T >= 3 previews as '[1, 2, 3]'.                                         *)
C14_ArrayPreview ==
    (last.op = "getInlinepreview" /\ root.json.kind = "array") =>
        LET L == Len(root.json.props)
            T == NumberOf(config.hoverPreviewArrayCount)
        IN  /\ L <= T => preview = "[" \o Join(MemberPreviews(root.json), ", ") \o "]"
            /\ L > T => preview = "Array[" \o ToString(L) \o "]"
            /\ (root.json = Arr(<<Num(1), Num(2), Num(3)>>) /\ T >= 3)
                  => preview = "[1, 2, 3]"

C14_Witness ==
    /\ last.op = "getInlinepreview" /\ root.json.kind = "array"
    /\ Len(root.json.props) = 3 /\ NumberOf(config.hoverPreviewArrayCount) = 3
    /\ preview = "[1, \"s\", Array[2]]"

(* C15: the inline preview of an object with K keys under field count      *)
(* F = hoverPreviewFieldCount is '{' + the first min(K, F) key:preview     *)
(* pairs joined by ', ' + '}', with the ellipsis marker before the closing *)
(* brace exactly when K > F.                                               *)
C15_ObjectPreview ==
    (last.op = "getInlinepreview" /\ root.json.kind = "object") =>
        LET K == Len(keys(root))
            F == NumberOf(config.hoverPreviewFieldCount)
            shown == IF K < F THEN K ELSE F
            pairs == [i \in 1..shown |->
                        keys(root)[i] \o ":" \o MemberPreviews(root.json)[i]]
        IN  preview = "{" \o Join(pairs, ", ") \o (IF K > F THEN Ellipsis ELSE "") \o "}"

\* The same with the marker exactly when K >= F, as line 300 has it.
C15_EllipsisFromFieldCount ==
    (last.op = "getInlinepreview" /\ root.json.kind = "object") =>
        LET K == Len(keys(root))
            F == NumberOf(config.hoverPreviewFieldCount)
            shown == IF K < F THEN K ELSE F
            pairs == [i \in 1..shown |->
                        keys(root)[i] \o ":" \o MemberPreviews(root.json)[i]]
        IN  preview = "{" \o Join(pairs, ", ") \o (IF K >= F THEN Ellipsis ELSE "") \o "}"

----------------------------------------------------------------------------
(* C16: a toggleOpen() or openAtDepth(depth >= 0) call on a formatter that *)
(* still has paced steps pending invalidates them: the step the host runs  *)
(* next on that formatter, which is the oldest pending and so one of an    *)
(* earlier sequence, neither appends nor removes a child.                  *)
C16_EarlierSequenceInvalidated ==
    [][(/\ last.op \in {"toggleOpen", "openAtDepth"}
        /\ last.op = "openAtDepth" => last.depth >= 0
        /\ ~LastCall.quiet
        /\ last'.op = "frame" /\ last'.path = last.path)
          => At(root', last.path).children = At(root, last.path).children]_vars

----------------------------------------------------------------------------
(* C17: an animated Attach yields at most MAX_ANIMATED_TOGGLE_ITEMS times: *)
(* once that many children have been appended the rest follow in the same  *)
(* step.  Every yield hands addAChild to requestAnimationFrame with the    *)
(* number of children its sequence has appended so far, so no pending      *)
(* addAChild holds MAX_ANIMATED_TOGGLE_ITEMS or more.                      *)
C17_AtMostMaxYields ==
    \A i \in 1..Len(root.pending) :
        root.pending[i].fn = "addAChild" => root.pending[i].arg < MAX_ANIMATED_TOGGLE_ITEMS

\* The same with one more yield, as the test `index > MAX_ANIMATED_TOGGLE_ITEMS`
\* at line 466 has it.
C17_AtMostMaxPlusOneYields ==
    \A i \in 1..Len(root.pending) :
        root.pending[i].fn = "addAChild" => root.pending[i].arg <= MAX_ANIMATED_TOGGLE_ITEMS

----------------------------------------------------------------------------
\* The latest call was a toggleOpen() that started an animated Detach on
\* the rendered root, which had no callback pending; no call was made since.
DetachAlone ==
    /\ calls # <<>>
    /\ LastCall.op = "toggleOpen" /\ LastCall.path = <<>>
    /\ LastCall.wasOpen /\ LastCall.quiet
    /\ root.element /\ Truthy(config.animateClose) /\ hasRAF

\* The Detach has ended: no child is left and no step is pending.
DetachDone == root.children = <<>> /\ root.pending = <<>>

(* C18: an animated Detach on a formatter with M children, no other call   *)
(* being made on it meanwhile, removes the first child at every step,      *)
(* yields after each removal until more than MAX_ANIMATED_TOGGLE_ITEMS     *)
(* children are removed and removes the rest in that same step; every step *)
(* either ends the Detach or leaves one child fewer, and once no step is   *)
(* pending no child is left.                                               *)
C18_AnimatedDetach ==
    /\ [](DetachAlone =>
            /\ Len(root.pending) <= 1
            /\ root.pending = <<>> => root.children = <<>>
            /\ root.pending # <<>> =>
                  /\ root.pending[1].fn = "removeAChild"
                  /\ root.pending[1].arg <= MAX_ANIMATED_TOGGLE_ITEMS
                  /\ root.pending[1].arg = LastCall.kids - Len(root.children))
    /\ [][(DetachAlone /\ last'.op = "frame" /\ last'.path = <<>>) =>
            LET removed == root.pending[1].arg + 1
            IN  IF root.children = <<>>
                THEN root'.children = <<>> /\ root'.pending = <<>>
                ELSE IF removed > MAX_ANIMATED_TOGGLE_ITEMS
                THEN root'.children = <<>> /\ root'.pending = <<>>
                ELSE /\ root'.children = Tail(root.children)
                     /\ root'.pending = <<[fn |-> "removeAChild", arg |-> removed]>>]_vars

C18_Witness ==
    /\ DetachAlone /\ DetachDone
    /\ last.op = "frame" /\ LastCall.kids = BigLen

----------------------------------------------------------------------------
\* The latest call re-expanded the rendered root, which was closed with no
\* step pending (its Detach had ended), and the Attach it started has ended.
Reexpanded ==
    /\ calls # <<>>
    /\ LastCall.path = <<>> /\ root.element
    /\ ~LastCall.wasOpen /\ LastCall.quiet
    /\ \/ LastCall.op = "toggleOpen"
       \/ LastCall.op = "openAtDepth" /\ LastCall.depth > 0
    /\ root.pending = <<>>

(* C19: after a collapse whose Detach has ended and a re-expansion whose   *)
(* Attach has ended, every child is a formatter newly constructed and      *)
(* rendered, with openState unset and the budget of its parent minus one:  *)
(* nothing done to a child before the collapse is left in the subtree.     *)
C19_ReexpansionRebuilds ==
    Reexpanded =>
        \A i \in 1..Len(root.children) :
            LET c == root.children[i]
            IN  /\ c._isOpen = "null"
                /\ c.open = root.open - 1
                /\ c = render(JSONFormatter(c.json, root.open - 1,
                                            IF c.key = "\"\"" THEN "" ELSE c.key, TRUE))

\* The same for a re-expansion that toggleOpen() started on a root with no
\* child left over (openAtDepth removes those there are).
C19_RebuildsFromNoChildren ==
    (Reexpanded /\ (LastCall.op = "toggleOpen" => LastCall.kids = 0)) =>
        \A i \in 1..Len(root.children) :
            LET c == root.children[i]
            IN  /\ c._isOpen = "null"
                /\ c.open = root.open - 1
                /\ c = render(JSONFormatter(c.json, root.open - 1,
                                            IF c.key = "\"\"" THEN "" ELSE c.key, TRUE))

----------------------------------------------------------------------------
(* C20: without window.requestAnimationFrame a callback is run at once:    *)
(* no step is ever pending, and an animated Attach or Detach has ended     *)
(* when the toggleOpen() / openAtDepth(depth >= 0) call that started it    *)
(* returns, with the children the non-animated Attach or Detach leaves.    *)
C20_NoFrameClock ==
    /\ [](~hasRAF => Quiescent)
    /\ [][(/\ ~hasRAF
           /\ Truthy(config.animateOpen) /\ Truthy(config.animateClose)
           /\ last'.op \in {"toggleOpen", "openAtDepth"}
           /\ last'.op = "openAtDepth" => last'.depth >= 0
           /\ At(root, last'.path).element) =>
            LET n == At(root, last'.path)
                m == At(root', last'.path)
                kept == IF last'.op = "openAtDepth" THEN <<>> ELSE n.children
            IN  /\ m.pending = <<>>
                /\ m.children =
                     IF isOpen(m)
                     THEN appendChildren([m EXCEPT !.children = kept], "false").children
                     ELSE removeChildren([m EXCEPT !.children = kept], "false").children]_vars

C20_Witness ==
    /\ ~hasRAF /\ Truthy(config.animateOpen)
    /\ last.op = "toggleOpen" /\ last.path = <<>> /\ ~LastCall.wasOpen
    /\ root.element /\ isOpen(root)
    /\ Len(root.children) = BigLen /\ root.pending = <<>>

====
